---- MODULE Spec2Model ----
(***************************************************************************)
(* NIP-87 mint discovery of harbor-ui (src/harbor-ui/src/nostr.rs):        *)
(* parsing of relay events into announcements, aggregation of the          *)
(* announcements per mint identity, and the discover_mints pass.           *)
(*                                                                         *)
(* A Rust String is a sequence of one-character strings, so that split     *)
(* and the integer / identifier parsers work on the characters.  An        *)
(* Option is a sequence of length 0 (None) or 1 (Some).  A BTreeSet is a   *)
(* set, a BTreeMap a function on its key set.                              *)
(***************************************************************************)
EXTENDS Integers, Sequences, FiniteSets, TLC

VARIABLES pc, network, added, connected, timed_out, fetch_result, events,
          cashu_announcements, fedimint_announcements,
          outcome, cashu_mints, fedimint_mints, event, parsed

vars == <<pc, network, added, connected, timed_out, fetch_result, events,
          cashu_announcements, fedimint_announcements,
          outcome, cashu_mints, fedimint_mints, event, parsed>>

(***************************************************************************)
(* Bounds of the model.                                                    *)
(***************************************************************************)
\* longest list of raw announcements handed to aggregate
MaxAnn == 4
\* longest list of raw announcements whose every reordering is aggregated
MaxPermAnn == 3
\* most tags on one event handed to a parser
MaxTags == 4
\* most events one fetch returns
MaxEvents == 2
\* bytes of a federation id (a sha256 hash, 32 bytes, in the program)
FederationIdBytes == 1

(***************************************************************************)
(* Program constants.                                                      *)
(***************************************************************************)
HARDCODED_RELAYS == <<"wss://relay.damus.io", "wss://relay.primal.net",
                      "wss://relay.snort.social">>
NIP87_MINT_RECOMMENDATION_KIND == 38000
NIP87_MINT_ANNOUNCEMENT_CASHU_KIND == 38172
NIP87_MINT_ANNOUNCEMENT_FEDIMINT_KIND == 38173
\* largest u16, the element type of CashuAnnouncement::nuts
U16Max == 65535

None == <<>>
Some(x) == <<x>>

Range(s) == {s[i] : i \in 1..Len(s)}

(***************************************************************************)
(* Strings                                                                 *)
(***************************************************************************)
Digits == <<"0", "1", "2", "3", "4", "5", "6", "7", "8", "9">>

\* value of a decimal digit character
DigitValue(c) == (CHOOSE i \in 1..Len(Digits) : Digits[i] = c) - 1

IsDigit(c) == c \in Range(Digits)

RECURSIVE DecimalValue(_, _)
\* the digits of s read left to right on top of acc; -1 once the value
\* leaves u16 (checked_mul / checked_add failing)
DecimalValue(s, acc) ==
    IF s = <<>> THEN acc
    ELSE LET next == acc * 10 + DigitValue(s[1])
         IN  IF next > U16Max THEN -1 ELSE DecimalValue(Tail(s), next)

\* str::parse::<u16>: an optional "+", then one or more decimal digits whose
\* value fits u16; anything else is an Err (None here)
ParseU16(s) ==
    LET digits == IF s # <<>> /\ s[1] = "+" THEN Tail(s) ELSE s
    IN  IF digits = <<>> \/ \E i \in 1..Len(digits) : ~IsDigit(digits[i])
        THEN None
        ELSE LET v == DecimalValue(digits, 0)
             IN  IF v < 0 THEN None ELSE Some(v)

RECURSIVE Split(_)
\* str::split(','): the pieces between the commas, empty pieces included;
\* the empty string splits into one empty piece
Split(s) ==
    IF \A i \in 1..Len(s) : s[i] # ","
    THEN <<s>>
    ELSE LET c == CHOOSE i \in 1..Len(s) :
                      s[i] = "," /\ \A j \in 1..(i - 1) : s[j] # ","
         IN  <<SubSeq(s, 1, c - 1)>> \o Split(SubSeq(s, c + 1, Len(s)))

(***************************************************************************)
(* get_most_common_string                                                  *)
(***************************************************************************)
\* counts.entry(string).or_insert(0), then *count += 1
CountsBump(counts, string) ==
    [k \in DOMAIN counts \cup {string} |->
        IF k = string
        THEN (IF string \in DOMAIN counts THEN counts[string] ELSE 0) + 1
        ELSE counts[k]]

\* a scan whose maximum moves on an equal count too: the last string to reach
\* the highest count wins
MostCommonUpdateOnTie(count, max_count, most_common, string) ==
    IF count >= max_count
    THEN [max_count |-> count, most_common |-> Some(string)]
    ELSE [max_count |-> max_count, most_common |-> most_common]

\* if *count > max_count { max_count = *count; most_common = Some(*string) }
MostCommonUpdate(count, max_count, most_common, string) ==
    IF count > max_count
    THEN [max_count |-> count, most_common |-> Some(string)]
    ELSE [max_count |-> max_count, most_common |-> most_common]

RECURSIVE MostCommonScan(_, _, _, _)
\* the for loop over strings, from the first string left
MostCommonScan(strings, counts, max_count, most_common) ==
    IF strings = <<>> THEN most_common
    ELSE LET c == CountsBump(counts, strings[1])
             u == MostCommonUpdate(c[strings[1]], max_count, most_common,
                                   strings[1])
         IN  MostCommonScan(Tail(strings), c, u.max_count, u.most_common)

get_most_common_string(strings) == MostCommonScan(strings, <<>>, 0, None)

(***************************************************************************)
(* CashuAnnouncement::aggregate                                            *)
(***************************************************************************)
\* map.entry(key).or_default().push(announcement)
GroupPush(map, key, announcement) ==
    [k \in DOMAIN map \cup {key} |->
        IF k = key
        THEN Append(IF key \in DOMAIN map THEN map[key] ELSE <<>>,
                    announcement)
        ELSE map[k]]

RECURSIVE GroupByMintPubkey(_, _)
GroupByMintPubkey(announcements, map) ==
    IF announcements = <<>> THEN map
    ELSE GroupByMintPubkey(Tail(announcements),
             GroupPush(map, announcements[1].mint_pubkey, announcements[1]))

\* the url of the group's last announcement instead of its most common one
MergedUrlLast(group) == Some(group[Len(group)].url)

\* get_most_common_string over the group's urls, in the group's order
MergedUrl(group) ==
    get_most_common_string([i \in 1..Len(group) |-> group[i].url])

\* the nuts of the group's first announcement only
AllSeenNutsFirst(group) == group[1].nuts

\* all_seen_nuts.extend(announcement.nuts) over the group
AllSeenNuts(group) == UNION {group[i].nuts : i \in 1..Len(group)}

\* the filter_map over the groups: a group whose url is None is left out
CashuAggregate(announcements) ==
    LET groups == GroupByMintPubkey(announcements, <<>>)
        kept   == {k \in DOMAIN groups : MergedUrl(groups[k]) # None}
    IN  [k \in kept |->
            [mint_pubkey |-> k,
             url         |-> MergedUrl(groups[k])[1],
             nuts        |-> AllSeenNuts(groups[k])]]

(***************************************************************************)
(* FedimintAnnouncement::aggregate                                         *)
(***************************************************************************)
RECURSIVE GroupByFederationId(_, _)
GroupByFederationId(announcements, map) ==
    IF announcements = <<>> THEN map
    ELSE GroupByFederationId(Tail(announcements),
             GroupPush(map, announcements[1].federation_id, announcements[1]))

\* the invite codes of the group's last announcement only
AllSeenInviteCodesLast(group) == group[Len(group)].invite_codes

\* the flattened invite_codes of the group, collected into a set
AllSeenInviteCodes(group) ==
    UNION {group[i].invite_codes : i \in 1..Len(group)}

\* all_seen_modules.extend(announcement.modules) over the group
AllSeenModules(group) == UNION {group[i].modules : i \in 1..Len(group)}

FedimintAggregate(announcements) ==
    LET groups == GroupByFederationId(announcements, <<>>)
    IN  [k \in DOMAIN groups |->
            [federation_id |-> k,
             invite_codes  |-> AllSeenInviteCodes(groups[k]),
             modules       |-> AllSeenModules(groups[k])]]

(***************************************************************************)
(* Events and tags (nostr_sdk).  A tag is its vector of strings, the first *)
(* being its kind; an event is its kind number and its tags in order.      *)
(***************************************************************************)
\* the tag kinds the parsers look for: SingleLetterTag::lowercase(Alphabet::D),
\* SingleLetterTag::lowercase(Alphabet::U), TagKind::Custom("nuts") and
\* TagKind::Custom("modules")
TagD == <<"d">>
TagU == <<"u">>
TagNuts == <<"n", "u", "t", "s">>
TagModules == <<"m", "o", "d", "u", "l", "e", "s">>

\* Tags::find(kind): the first tag of that kind
TagsFind(tags, kind) ==
    IF \A i \in 1..Len(tags) : tags[i][1] # kind
    THEN None
    ELSE Some(tags[CHOOSE i \in 1..Len(tags) :
                       tags[i][1] = kind
                       /\ \A j \in 1..(i - 1) : tags[j][1] # kind])

\* Tags::filter(kind): every tag of that kind, in order
TagsFilter(tags, kind) == SelectSeq(tags, LAMBDA t : t[1] = kind)

\* Tag::content(): the string after the kind, if there is one
TagContent(tag) == IF Len(tag) >= 2 THEN Some(tag[2]) ELSE None

\* Tag::pop() on the clone: the last string of the tag
TagPop(tag) == IF tag = <<>> THEN None ELSE Some(tag[Len(tag)])

(***************************************************************************)
(* parse_event_as_cashu_mint_announcement                                  *)
(***************************************************************************)
\* a list that is given up as a whole when one entry does not parse
NutsOfListStrict(list) ==
    IF \E e \in Range(Split(list)) : ParseU16(e) = None
    THEN {}
    ELSE {ParseU16(e)[1] : e \in Range(Split(list))}

\* .split(',').filter_map(|module| module.parse().ok()).collect()
NutsOfList(list) ==
    {ParseU16(e)[1] : e \in {x \in Range(Split(list)) : ParseU16(x) # None}}

\* find(kind)?.content()?
FirstContent(tags, kind) ==
    LET tag == TagsFind(tags, kind)
    IN  IF tag = None THEN None ELSE TagContent(tag[1])

\* find(kind)?.clone().pop()?
FirstPopped(tags, kind) ==
    LET tag == TagsFind(tags, kind)
    IN  IF tag = None THEN None ELSE TagPop(tag[1])

parse_event_as_cashu_mint_announcement(ev) ==
    LET mint_pubkey == FirstContent(ev.tags, TagD)
        url         == FirstContent(ev.tags, TagU)
        nuts        == FirstPopped(ev.tags, TagNuts)
    IN  IF mint_pubkey = None THEN None
        ELSE IF url = None THEN None
        ELSE IF nuts = None THEN None
        ELSE Some([mint_pubkey |-> mint_pubkey[1],
                   url         |-> url[1],
                   nuts        |-> NutsOfList(nuts[1])])

(***************************************************************************)
(* FederationId::from_str and InviteCode::from_str (fedimint_core)         *)
(***************************************************************************)
HexLower == <<"0", "1", "2", "3", "4", "5", "6", "7", "8", "9",
              "a", "b", "c", "d", "e", "f">>
HexUpper == <<"0", "1", "2", "3", "4", "5", "6", "7", "8", "9",
              "A", "B", "C", "D", "E", "F">>

IsHex(c) == c \in Range(HexLower) \cup Range(HexUpper)

HexValue(c) ==
    IF c \in Range(HexLower)
    THEN (CHOOSE i \in 1..Len(HexLower) : HexLower[i] = c) - 1
    ELSE (CHOOSE i \in 1..Len(HexUpper) : HexUpper[i] = c) - 1

\* the hash a hex string of the right length denotes, as its bytes; either
\* case of a hex digit denotes the same value
FederationIdFromStr(s) ==
    IF Len(s) # 2 * FederationIdBytes \/ \E i \in 1..Len(s) : ~IsHex(s[i])
    THEN None
    ELSE Some([i \in 1..FederationIdBytes |->
                  16 * HexValue(s[2 * i - 1]) + HexValue(s[2 * i])])

InviteCodePrefix == <<"f", "e", "d", "1">>
Bech32Charset == {"q", "p", "z", "r", "y", "9", "x", "8", "g", "f", "2", "t",
                  "v", "d", "w", "0", "s", "3", "j", "n", "5", "4", "k", "h",
                  "c", "e", "6", "m", "u", "a", "7", "l"}

\* an invite code is the bech32 text "fed1" and a data part; its value is the
\* data it carries
InviteCodeFromStr(s) ==
    LET n == Len(InviteCodePrefix)
    IN  IF Len(s) > n /\ SubSeq(s, 1, n) = InviteCodePrefix
           /\ \A i \in (n + 1)..Len(s) : s[i] \in Bech32Charset
        THEN Some([data |-> SubSeq(s, n + 1, Len(s))])
        ELSE None

(***************************************************************************)
(* parse_event_as_fedimint_mint_announcement                               *)
(***************************************************************************)
\* find(d).map(|tag| tag.content())?.map(|c| FederationId::from_str(c).ok())??
FederationIdOfTags(tags) ==
    LET content == FirstContent(tags, TagD)
    IN  IF content = None THEN None ELSE FederationIdFromStr(content[1])

\* an event is given up when one of its invite codes does not parse
InviteCodesOfTagsStrict(tags) ==
    LET popped == {TagPop(t)[1] : t \in Range(TagsFilter(tags, TagU))}
    IN  IF \E c \in popped : InviteCodeFromStr(c) = None
        THEN {}
        ELSE {InviteCodeFromStr(c)[1] : c \in popped}

\* filter(u).filter_map(|tag| tag.clone().pop())
\*          .filter_map(|code| InviteCode::from_str(&code).ok()).collect()
InviteCodesOfTags(tags) ==
    LET popped == {TagPop(t)[1] : t \in Range(TagsFilter(tags, TagU))}
    IN  {InviteCodeFromStr(c)[1] :
            c \in {x \in popped : InviteCodeFromStr(x) # None}}

\* .split(',').map(|module| module.to_string()).collect()
ModulesOfList(list) == Range(Split(list))

parse_event_as_fedimint_mint_announcement(ev) ==
    LET federation_id == FederationIdOfTags(ev.tags)
        modules       == FirstPopped(ev.tags, TagModules)
    IN  IF federation_id = None THEN None
        ELSE IF modules = None THEN None
        ELSE Some([federation_id |-> federation_id[1],
                   invite_codes  |-> InviteCodesOfTags(ev.tags),
                   modules       |-> ModulesOfList(modules[1])])

(***************************************************************************)
(* Inputs of the bounded checks                                            *)
(***************************************************************************)
SeqsUpTo(S, n) == UNION {[1..k -> S] : k \in 0..n}

\* a federation id all of whose bytes are b
FedId(b) == [i \in 1..FederationIdBytes |-> b]

InviteA == [data |-> <<"q">>]
InviteB == [data |-> <<"p">>]

CashuPool ==
    [mint_pubkey : {<<"p">>, <<"q">>},
     url         : {<<"a">>, <<"b">>},
     nuts        : {{1, 2}, {2, 3}}]

FedimintPool ==
    [federation_id : {FedId(241), FedId(242)},
     invite_codes  : {{InviteA}, {InviteB}},
     modules       : {{<<"m">>}, {<<"m">>, <<"l", "n">>}}]

(***************************************************************************)
(* AggSpec: the two aggregate functions applied to every bounded list of   *)
(* raw announcements.                                                      *)
(***************************************************************************)
Idle ==
    /\ network = "none" /\ added = <<>> /\ connected = {}
    /\ timed_out = FALSE /\ fetch_result = "none" /\ events = <<>>
    /\ outcome = "none"
    /\ event = [kind |-> 0, tags |-> <<>>] /\ parsed = None

AggInit ==
    /\ pc = "input"
    /\ \/ /\ cashu_announcements \in SeqsUpTo(CashuPool, MaxAnn)
          /\ fedimint_announcements = <<>>
       \/ /\ cashu_announcements = <<>>
          /\ fedimint_announcements \in SeqsUpTo(FedimintPool, MaxAnn)
    /\ cashu_mints = <<>> /\ fedimint_mints = <<>>
    /\ Idle

AggregateCashu ==
    /\ pc = "input"
    /\ cashu_mints' = CashuAggregate(cashu_announcements)
    /\ pc' = "cashu_aggregated"
    /\ UNCHANGED <<network, added, connected, timed_out, fetch_result, events,
                   cashu_announcements, fedimint_announcements, outcome,
                   fedimint_mints, event, parsed>>

AggregateFedimint ==
    /\ pc = "input"
    /\ fedimint_mints' = FedimintAggregate(fedimint_announcements)
    /\ pc' = "fedimint_aggregated"
    /\ UNCHANGED <<network, added, connected, timed_out, fetch_result, events,
                   cashu_announcements, fedimint_announcements, outcome,
                   cashu_mints, event, parsed>>

AggNext == AggregateCashu \/ AggregateFedimint

AggSpec == AggInit /\ [][AggNext]_vars

(***************************************************************************)
(* PermSpec: the same two functions on the lists short enough for every    *)
(* reordering of the list to be aggregated too.                            *)
(***************************************************************************)
PermInit ==
    /\ pc = "input"
    /\ \/ /\ cashu_announcements \in SeqsUpTo(CashuPool, MaxPermAnn)
          /\ fedimint_announcements = <<>>
       \/ /\ cashu_announcements = <<>>
          /\ fedimint_announcements \in SeqsUpTo(FedimintPool, MaxPermAnn)
    /\ cashu_mints = <<>> /\ fedimint_mints = <<>>
    /\ Idle

PermSpec == PermInit /\ [][AggNext]_vars

(***************************************************************************)
(* Claims about aggregation (checked under AggSpec)                        *)
(***************************************************************************)
\* the raw Cashu announcements of one mint, in input order
CashuGroupOf(k) ==
    SelectSeq(cashu_announcements, LAMBDA a : a.mint_pubkey = k)

\* the raw Federation announcements of one federation, in input order
FedimintGroupOf(k) ==
    SelectSeq(fedimint_announcements, LAMBDA a : a.federation_id = k)

\* C1: CashuAnnouncement::aggregate returns a mapping whose keys are exactly
\* the distinct mint_pubkey values of the input; the record at a key carries
\* that key as mint_pubkey and, as nuts, the union of the nuts of every input
\* announcement of that mint; the empty list gives the empty mapping.
C1_CashuAggregateUnion ==
    pc = "cashu_aggregated" =>
        /\ DOMAIN cashu_mints =
               {cashu_announcements[i].mint_pubkey :
                    i \in 1..Len(cashu_announcements)}
        /\ \A k \in DOMAIN cashu_mints :
               /\ cashu_mints[k].mint_pubkey = k
               /\ cashu_mints[k].nuts =
                      UNION {a.nuts : a \in Range(CashuGroupOf(k))}
        /\ (cashu_announcements = <<>> => cashu_mints = <<>>)

\* two mints in the input, one of them announced twice with different nuts
C1_Witness ==
    /\ pc = "cashu_aggregated"
    /\ Cardinality(DOMAIN cashu_mints) = 2
    /\ \E i, j \in 1..Len(cashu_announcements) :
           /\ i # j
           /\ cashu_announcements[i].mint_pubkey
                  = cashu_announcements[j].mint_pubkey
           /\ cashu_announcements[i].nuts # cashu_announcements[j].nuts

\* C2: FedimintAnnouncement::aggregate returns one record per distinct
\* federation_id of the input, whose invite_codes and modules are the unions
\* of those sets over every input announcement of that federation.
C2_FedimintAggregateUnion ==
    pc = "fedimint_aggregated" =>
        /\ DOMAIN fedimint_mints =
               {fedimint_announcements[i].federation_id :
                    i \in 1..Len(fedimint_announcements)}
        /\ \A k \in DOMAIN fedimint_mints :
               /\ fedimint_mints[k].federation_id = k
               /\ fedimint_mints[k].invite_codes =
                      UNION {a.invite_codes : a \in Range(FedimintGroupOf(k))}
               /\ fedimint_mints[k].modules =
                      UNION {a.modules : a \in Range(FedimintGroupOf(k))}

\* two federations in the input, one announced twice with different invite
\* codes and different modules
C2_Witness ==
    /\ pc = "fedimint_aggregated"
    /\ Cardinality(DOMAIN fedimint_mints) = 2
    /\ \E i, j \in 1..Len(fedimint_announcements) :
           /\ i # j
           /\ fedimint_announcements[i].federation_id
                  = fedimint_announcements[j].federation_id
           /\ fedimint_announcements[i].invite_codes
                  # fedimint_announcements[j].invite_codes
           /\ fedimint_announcements[i].modules
                  # fedimint_announcements[j].modules

\* the urls of one mint's raw announcements, in input order
UrlsOf(k) == [i \in 1..Len(CashuGroupOf(k)) |-> CashuGroupOf(k)[i].url]

\* occurrences of x among the first n of urls
CountIn(x, urls, n) == Cardinality({i \in 1..n : urls[i] = x})

\* the highest occurrence count of a url
MaxCount(urls) ==
    CHOOSE m \in 1..Len(urls) :
        /\ \E x \in Range(urls) : CountIn(x, urls, Len(urls)) = m
        /\ \A x \in Range(urls) : CountIn(x, urls, Len(urls)) <= m

\* the position of the scan at which x's running count reaches m
FirstReached(x, urls, m) ==
    CHOOSE i \in 1..Len(urls) :
        /\ CountIn(x, urls, i) = m
        /\ \A j \in 1..(i - 1) : CountIn(x, urls, j) < m

\* the urls that occur most often
Modes(urls) ==
    {x \in Range(urls) : CountIn(x, urls, Len(urls)) = MaxCount(urls)}

\* C3: the url of a merged Cashu record occurs most often among the urls of
\* that mint's raw announcements, and among the urls that tie for the highest
\* count it is the one whose running count reached that count first in input
\* order.
C3_UrlIsFirstToReachMaxCount ==
    pc = "cashu_aggregated" =>
        \A k \in DOMAIN cashu_mints :
            LET urls == UrlsOf(k)
                u    == cashu_mints[k].url
            IN  /\ u \in Modes(urls)
                /\ \A x \in Modes(urls) :
                       FirstReached(u, urls, MaxCount(urls))
                           <= FirstReached(x, urls, MaxCount(urls))

\* one mint announced with urls a, b, b, a: a and b tie at two, b reached two
\* first, and b is neither the smallest nor the most recent url
C3_Witness ==
    /\ pc = "cashu_aggregated"
    /\ \E k \in DOMAIN cashu_mints :
           /\ UrlsOf(k) = <<(<<"a">>), (<<"b">>), (<<"b">>), (<<"a">>)>>
           /\ cashu_mints[k].url = <<"b">>

\* s reordered by the permutation p of its positions
Permuted(s, p) == [i \in 1..Len(s) |-> s[p[i]]]

\* C10 (under PermSpec): aggregation of a permutation of the input gives the same Federation
\* mapping, and a Cashu mapping with the same keys and the same nuts per key
\* whose url at a key differs only if two or more urls tie for the highest
\* count in that key's group.
C10_AggregateOrderIndependent ==
    /\ pc = "cashu_aggregated" =>
           \A p \in Permutations(1..Len(cashu_announcements)) :
               LET other == CashuAggregate(Permuted(cashu_announcements, p))
               IN  /\ DOMAIN other = DOMAIN cashu_mints
                   /\ \A k \in DOMAIN other :
                          /\ other[k].mint_pubkey = cashu_mints[k].mint_pubkey
                          /\ other[k].nuts = cashu_mints[k].nuts
                          /\ other[k].url # cashu_mints[k].url =>
                                 Cardinality(Modes(UrlsOf(k))) >= 2
    /\ pc = "fedimint_aggregated" =>
           \A p \in Permutations(1..Len(fedimint_announcements)) :
               FedimintAggregate(Permuted(fedimint_announcements, p))
                   = fedimint_mints

\* two mints, one of them with urls that tie, so that some reordering of the
\* input changes that mint's url
C10_Witness ==
    /\ pc = "cashu_aggregated"
    /\ Cardinality(DOMAIN cashu_mints) = 2
    /\ \E p \in Permutations(1..Len(cashu_announcements)) :
           \E k \in DOMAIN cashu_mints :
               CashuAggregate(Permuted(cashu_announcements, p))[k].url
                   # cashu_mints[k].url

(***************************************************************************)
(* ParseSpec: the two parsers applied to every bounded event.              *)
(***************************************************************************)
RECURSIVE Repeat(_, _)
Repeat(s, n) == IF n = 0 THEN <<>> ELSE s \o Repeat(s, n - 1)

\* the hex text of FedId(b), from the two hex digits of b
FedIdStr(hi, lo) == Repeat(<<hi, lo>>, FederationIdBytes)

CashuTagPool ==
    { <<TagD>>, <<TagD, <<"p">>>>, <<TagD, <<"q">>>>,
      <<TagU>>, <<TagU, <<"a">>>>, <<TagU, <<"b">>>>,
      <<TagNuts>>,
      <<TagNuts, <<"1", ",", "x", ",", "3">>>>,
      <<TagNuts, <<"2">>, <<"+", "7", ",", "7", "0", "0", "0", "0">>>> }

FedimintTagPool ==
    { <<TagD>>, <<TagD, FedIdStr("f", "1")>>, <<TagD, FedIdStr("F", "1")>>,
      <<TagD, FedIdStr("z", "z")>>,
      <<TagU, <<"f", "e", "d", "1", "q">>>>, <<TagU, <<"a">>>>,
      <<TagModules>>, <<TagModules, <<"m", ",", "l", "n">>>> }

ParseInputs ==
    [kind : {NIP87_MINT_ANNOUNCEMENT_CASHU_KIND},
     tags : SeqsUpTo(CashuTagPool, MaxTags)]
    \cup
    [kind : {NIP87_MINT_ANNOUNCEMENT_FEDIMINT_KIND},
     tags : SeqsUpTo(FedimintTagPool, MaxTags)]

ParseInit ==
    /\ pc = "input"
    /\ event \in ParseInputs
    /\ parsed = None
    /\ network = "none" /\ added = <<>> /\ connected = {}
    /\ timed_out = FALSE /\ fetch_result = "none" /\ events = <<>>
    /\ outcome = "none"
    /\ cashu_announcements = <<>> /\ fedimint_announcements = <<>>
    /\ cashu_mints = <<>> /\ fedimint_mints = <<>>

ParseCashu ==
    /\ pc = "input"
    /\ event.kind = NIP87_MINT_ANNOUNCEMENT_CASHU_KIND
    /\ parsed' = parse_event_as_cashu_mint_announcement(event)
    /\ pc' = "cashu_parsed"
    /\ UNCHANGED <<network, added, connected, timed_out, fetch_result, events,
                   cashu_announcements, fedimint_announcements, outcome,
                   cashu_mints, fedimint_mints, event>>

ParseFedimint ==
    /\ pc = "input"
    /\ event.kind = NIP87_MINT_ANNOUNCEMENT_FEDIMINT_KIND
    /\ parsed' = parse_event_as_fedimint_mint_announcement(event)
    /\ pc' = "fedimint_parsed"
    /\ UNCHANGED <<network, added, connected, timed_out, fetch_result, events,
                   cashu_announcements, fedimint_announcements, outcome,
                   cashu_mints, fedimint_mints, event>>

ParseNext == ParseCashu \/ ParseFedimint

ParseSpec == ParseInit /\ [][ParseNext]_vars

(***************************************************************************)
(* Claims about the parsers (checked under ParseSpec)                      *)
(***************************************************************************)
\* the positions of the event's tags of one kind
TagPositions(kind) == {i \in 1..Len(event.tags) : event.tags[i][1] = kind}

\* the event's first tag of a kind it carries
FirstTag(kind) ==
    event.tags[CHOOSE i \in TagPositions(kind) :
                   \A j \in TagPositions(kind) : i <= j]

\* the last string of a tag: what the parsers read as the value of a "nuts",
\* "modules" or federation "u" tag
TagValue(tag) == tag[Len(tag)]

\* the numbers the comma-separated entries of a nuts value denote; an entry
\* that denotes none adds nothing
NutsDenoted(value) ==
    UNION {Range(ParseU16(e)) : e \in Range(Split(value))}

\* what C6 and its amended form say of a returned record
CashuRecordAsClaimed ==
    /\ parsed[1].mint_pubkey = FirstTag(TagD)[2]
    /\ parsed[1].url = FirstTag(TagU)[2]
    /\ parsed[1].nuts = NutsDenoted(TagValue(FirstTag(TagNuts)))

\* C6 as stated: a Cashu record is returned if and only if the event carries
\* some "d" tag with content, some "u" tag with content and a "nuts" tag, and
\* the record holds the first "d" and "u" contents and the numbers of the nuts
\* value.
C6_AsStated ==
    pc = "cashu_parsed" =>
        /\ parsed # None <=>
               /\ \E i \in TagPositions(TagD) : Len(event.tags[i]) >= 2
               /\ \E i \in TagPositions(TagU) : Len(event.tags[i]) >= 2
               /\ TagPositions(TagNuts) # {}
        /\ parsed # None => CashuRecordAsClaimed

\* C6 amended: a Cashu record is returned if and only if the event carries a
\* "d" tag, a "u" tag and a "nuts" tag and the first "d" tag and the first "u"
\* tag have content; the record holds those two contents, and its nuts are the
\* numbers that the comma-separated entries of the nuts value (the last string
\* of the first "nuts" tag) denote, an entry that denotes none being dropped.
C6_FirstTagsDecide ==
    pc = "cashu_parsed" =>
        /\ parsed # None <=>
               /\ TagPositions(TagD) # {} /\ Len(FirstTag(TagD)) >= 2
               /\ TagPositions(TagU) # {} /\ Len(FirstTag(TagU)) >= 2
               /\ TagPositions(TagNuts) # {}
        /\ parsed # None => CashuRecordAsClaimed

\* the nuts value "1,x,3" gives {1, 3}, with two "d" tags on the event
C6_Witness ==
    /\ pc = "cashu_parsed"
    /\ parsed # None
    /\ Cardinality(TagPositions(TagD)) = 2
    /\ TagValue(FirstTag(TagNuts)) = <<"1", ",", "x", ",", "3">>
    /\ parsed[1].nuts = {1, 3}

\* the invite codes that the values of the event's "u" tags denote; a value
\* that denotes none adds nothing
InviteCodesDenoted ==
    UNION {Range(InviteCodeFromStr(TagValue(event.tags[i]))) :
               i \in TagPositions(TagU)}

\* C7: no Federation record is returned when the "d" tag is absent, when its
\* content is missing or is no federation id, or when the "modules" tag is
\* absent; otherwise a record is returned whose invite_codes are the "u" tag
\* values that parse as invite codes and whose modules are the
\* comma-separated pieces of the modules value, verbatim.  "The" tag of a
\* kind is the first one of that kind.
C7_FedimintExtraction ==
    pc = "fedimint_parsed" =>
        LET no_record ==
                \/ TagPositions(TagD) = {}
                \/ Len(FirstTag(TagD)) < 2
                \/ FederationIdFromStr(FirstTag(TagD)[2]) = None
                \/ TagPositions(TagModules) = {}
        IN  /\ parsed = None <=> no_record
            /\ ~no_record =>
                   /\ <<parsed[1].federation_id>>
                          = FederationIdFromStr(FirstTag(TagD)[2])
                   /\ parsed[1].invite_codes = InviteCodesDenoted
                   /\ parsed[1].modules
                          = Range(Split(TagValue(FirstTag(TagModules))))

\* two "u" tags, one an invite code and one not: only the code is kept
C7_Witness ==
    /\ pc = "fedimint_parsed"
    /\ parsed # None
    /\ Cardinality({event.tags[i] : i \in TagPositions(TagU)}) = 2
    /\ parsed[1].invite_codes = {InviteA}
    /\ parsed[1].modules = {<<"m">>, <<"l", "n">>}

(***************************************************************************)
(* discover_mints                                                          *)
(***************************************************************************)
\* bitcoin::Network is non-exhaustive: "Other" is any variant past the five
\* the match names
Networks == {"Bitcoin", "Testnet", "Testnet4", "Signet", "Regtest", "Other"}

\* an unknown network filtered by no tag value instead of a panic
NetworkStrsLenient(n) ==
    CASE n = "Bitcoin" -> Some(<<"mainnet", "bitcoin">>)
      [] n \in {"Testnet", "Testnet4"} -> Some(<<"testnet">>)
      [] n = "Signet" -> Some(<<"signet">>)
      [] n = "Regtest" -> Some(<<"regtest">>)
      [] OTHER -> Some(<<>>)

\* the match on network: the tag values to filter by, None where it panics
NetworkStrs(n) ==
    CASE n = "Bitcoin" -> Some(<<"mainnet", "bitcoin">>)
      [] n \in {"Testnet", "Testnet4"} -> Some(<<"testnet">>)
      [] n = "Signet" -> Some(<<"signet">>)
      [] n = "Regtest" -> Some(<<"regtest">>)
      [] OTHER -> None

\* if let Some(announcement) = parse(event) { list.push(announcement) }
PushParsed(list, announcement) ==
    IF announcement = None THEN list ELSE Append(list, announcement[1])

RECURSIVE CollectLoop(_, _)
\* the for loop over the fetched events, from the first event left
CollectLoop(evs, acc) ==
    IF evs = <<>> THEN acc
    ELSE LET ev == evs[1]
         IN  CollectLoop(Tail(evs),
                 IF ev.kind = NIP87_MINT_ANNOUNCEMENT_CASHU_KIND
                 THEN [acc EXCEPT !.cashu =
                          PushParsed(@,
                              parse_event_as_cashu_mint_announcement(ev))]
                 ELSE IF ev.kind = NIP87_MINT_ANNOUNCEMENT_FEDIMINT_KIND
                 THEN [acc EXCEPT !.fedimint =
                          PushParsed(@,
                              parse_event_as_fedimint_mint_announcement(ev))]
                 ELSE acc)

NoAnnouncements == [cashu |-> <<>>, fedimint |-> <<>>]

\* a pass that fails as a whole when one fetched event does not parse
AfterFetchAbortOnMalformed(evs) ==
    LET acc == CollectLoop(evs, NoAnnouncements)
        malformed ==
            \E i \in 1..Len(evs) :
                \/ /\ evs[i].kind = NIP87_MINT_ANNOUNCEMENT_CASHU_KIND
                   /\ parse_event_as_cashu_mint_announcement(evs[i]) = None
                \/ /\ evs[i].kind = NIP87_MINT_ANNOUNCEMENT_FEDIMINT_KIND
                   /\ parse_event_as_fedimint_mint_announcement(evs[i]) = None
    IN  IF malformed
        THEN [outcome |-> "err", cashu |-> <<>>, fedimint |-> <<>>,
              cashu_mints |-> <<>>, fedimint_mints |-> <<>>]
        ELSE [outcome |-> "ok", cashu |-> acc.cashu, fedimint |-> acc.fedimint,
              cashu_mints |-> CashuAggregate(acc.cashu),
              fedimint_mints |-> FedimintAggregate(acc.fedimint)]

\* from the Ok of fetch_events to the returned Ok((.., ..))
AfterFetch(evs) ==
    LET acc == CollectLoop(evs, NoAnnouncements)
    IN  [outcome |-> "ok", cashu |-> acc.cashu, fedimint |-> acc.fedimint,
         cashu_mints |-> CashuAggregate(acc.cashu),
         fedimint_mints |-> FedimintAggregate(acc.fedimint)]

\* a wait whose timeout ends the pass
AfterWaitFailOnTimeout(timeout_elapsed) ==
    IF timeout_elapsed THEN "done" ELSE "fetch"

\* client.wait_for_connection(..).await: whatever the wait saw, the pass goes
\* on to build the filter and fetch
AfterWait(timeout_elapsed) == "fetch"

\* the events a relay can hand back
EventPool ==
    { [kind |-> NIP87_MINT_ANNOUNCEMENT_CASHU_KIND,
       tags |-> << <<TagD, <<"p">>>>, <<TagU, <<"a">>>>,
                   <<TagNuts, <<"1", ",", "x", ",", "3">>>> >>],
      [kind |-> NIP87_MINT_ANNOUNCEMENT_CASHU_KIND,
       tags |-> << <<TagD, <<"p">>>>, <<TagU, <<"b">>>>,
                   <<TagNuts, <<"2">>>> >>],
      [kind |-> NIP87_MINT_ANNOUNCEMENT_CASHU_KIND,
       tags |-> << <<TagD, <<"p">>>>, <<TagU, <<"a">>>> >>],
      [kind |-> NIP87_MINT_ANNOUNCEMENT_FEDIMINT_KIND,
       tags |-> << <<TagD, FedIdStr("f", "1")>>,
                   <<TagU, <<"f", "e", "d", "1", "q">>>>, <<TagU, <<"a">>>>,
                   <<TagModules, <<"m", ",", "l", "n">>>> >>],
      [kind |-> NIP87_MINT_ANNOUNCEMENT_FEDIMINT_KIND,
       tags |-> << <<TagD, FedIdStr("F", "1")>>,
                   <<TagU, <<"f", "e", "d", "1", "p">>>>,
                   <<TagModules, <<"w">>>> >>],
      [kind |-> NIP87_MINT_ANNOUNCEMENT_FEDIMINT_KIND,
       tags |-> << <<TagD, FedIdStr("z", "z")>>,
                   <<TagModules, <<"m">>>> >>],
      [kind |-> NIP87_MINT_RECOMMENDATION_KIND,
       tags |-> << <<TagD, <<"q">>>>, <<TagU, <<"a">>>>,
                   <<TagNuts, <<"4">>>> >>] }

Init ==
    /\ pc = "start"
    /\ network \in Networks
    /\ added = <<>> /\ connected = {} /\ timed_out = FALSE
    /\ fetch_result = "none" /\ events = <<>>
    /\ cashu_announcements = <<>> /\ fedimint_announcements = <<>>
    /\ outcome = "none" /\ cashu_mints = <<>> /\ fedimint_mints = <<>>
    /\ event = [kind |-> 0, tags |-> <<>>] /\ parsed = None

\* let network_strs = match network { .. }
MatchNetwork ==
    /\ pc = "start"
    /\ IF NetworkStrs(network) = None
       THEN outcome' = "panic" /\ pc' = "done"
       ELSE outcome' = outcome /\ pc' = "add_relay"
    /\ UNCHANGED <<network, added, connected, timed_out, fetch_result, events,
                   cashu_announcements, fedimint_announcements,
                   cashu_mints, fedimint_mints, event, parsed>>

\* client.add_relay(relay).await?  for the next relay of HARDCODED_RELAYS
AddRelay ==
    /\ pc = "add_relay"
    /\ \/ /\ added' = Append(added, HARDCODED_RELAYS[Len(added) + 1])
          /\ pc' = IF Len(added') = Len(HARDCODED_RELAYS)
                   THEN "connect" ELSE "add_relay"
          /\ outcome' = outcome
       \/ /\ added' = added
          /\ pc' = "done"
          /\ outcome' = "err"
    /\ UNCHANGED <<network, connected, timed_out, fetch_result, events,
                   cashu_announcements, fedimint_announcements,
                   cashu_mints, fedimint_mints, event, parsed>>

\* client.connect().await
Connect ==
    /\ pc = "connect"
    /\ pc' = "wait"
    /\ UNCHANGED <<network, added, connected, timed_out, fetch_result, events,
                   cashu_announcements, fedimint_announcements, outcome,
                   cashu_mints, fedimint_mints, event, parsed>>

\* client.wait_for_connection(Duration::from_secs(10)).await: it returns once
\* every relay is connected or the ten seconds are over
WaitForConnection ==
    /\ pc = "wait"
    /\ \E up \in SUBSET Range(added) :
           /\ connected' = up
           /\ timed_out' = (up # Range(added))
           /\ pc' = AfterWait(up # Range(added))
    /\ outcome' = IF pc' = "done" THEN "err" ELSE outcome
    /\ UNCHANGED <<network, added, fetch_result, events,
                   cashu_announcements, fedimint_announcements,
                   cashu_mints, fedimint_mints, event, parsed>>

\* client.fetch_events(filter, Duration::from_secs(10)).await?  and the rest
\* of the function: the loop over the events and the two aggregations
FetchEvents ==
    /\ pc = "fetch"
    /\ \/ /\ fetch_result' = "err"
          /\ outcome' = "err"
          /\ UNCHANGED <<events, cashu_announcements, fedimint_announcements,
                         cashu_mints, fedimint_mints>>
       \/ \E evs \in SeqsUpTo(EventPool, MaxEvents) :
              /\ connected = {} => evs = <<>>
              /\ fetch_result' = "ok"
              /\ events' = evs
              /\ LET r == AfterFetch(evs)
                 IN  /\ outcome' = r.outcome
                     /\ cashu_announcements' = r.cashu
                     /\ fedimint_announcements' = r.fedimint
                     /\ cashu_mints' = r.cashu_mints
                     /\ fedimint_mints' = r.fedimint_mints
    /\ pc' = "done"
    /\ UNCHANGED <<network, added, connected, timed_out, event, parsed>>

Next == MatchNetwork \/ AddRelay \/ Connect \/ WaitForConnection \/ FetchEvents

Spec == Init /\ [][Next]_vars

(***************************************************************************)
(* Claims about discover_mints (checked under Spec)                        *)
(***************************************************************************)
SupportedNetworks == {"Bitcoin", "Testnet", "Testnet4", "Signet", "Regtest"}

AllRelaysAdded == Len(added) = Len(HARDCODED_RELAYS)

\* C4: a pass for an unsupported network never ends in the successful
\* outcome (so never in Ok with two empty mappings): it ends in the panic, a
\* failure the caller tells apart from a pass that found no mints.
C4_UnsupportedNetworkFails ==
    network \notin SupportedNetworks =>
        /\ outcome \in {"none", "panic"}
        /\ fetch_result = "none"
        /\ pc = "done" => outcome = "panic"

\* the pass for an unsupported network has ended
C4_Witness ==
    /\ network \notin SupportedNetworks
    /\ pc = "done"
    /\ outcome = "panic"

\* the fetched events of one kind that a parser accepts, as the announcements
\* parsed from them, in fetch order
ParsedOfKind(kind, Parse(_)) ==
    LET good == SelectSeq(events, LAMBDA e : e.kind = kind /\ Parse(e) # None)
    IN  [i \in 1..Len(good) |-> Parse(good[i])[1]]

\* C5: whatever events the fetch returns, the pass returns Ok, and the two
\* mappings are the aggregations of exactly the events of the matching kind
\* that parsed; an event that does not parse is dropped and nothing else is.
C5_MalformedEventsDropped ==
    (pc = "done" /\ fetch_result = "ok") =>
        /\ outcome = "ok"
        /\ cashu_mints =
               CashuAggregate(
                   ParsedOfKind(NIP87_MINT_ANNOUNCEMENT_CASHU_KIND,
                                parse_event_as_cashu_mint_announcement))
        /\ fedimint_mints =
               FedimintAggregate(
                   ParsedOfKind(NIP87_MINT_ANNOUNCEMENT_FEDIMINT_KIND,
                                parse_event_as_fedimint_mint_announcement))

\* a malformed Cashu event fetched before a well-formed one, whose mint is
\* in the result
C5_Witness ==
    /\ pc = "done" /\ outcome = "ok"
    /\ Len(events) = 2
    /\ events[1].kind = NIP87_MINT_ANNOUNCEMENT_CASHU_KIND
    /\ parse_event_as_cashu_mint_announcement(events[1]) = None
    /\ DOMAIN cashu_mints = {<<"p">>}

\* C8: with at least one relay usable (registered with the client), the pass
\* returns an error only if the fetch step failed; a failure that concerns
\* another relay, one while registering it included, does not end the pass in
\* an error.
C8_PartialRelayFailureTolerated ==
    (pc = "done" /\ added # <<>> /\ fetch_result # "err") => outcome # "err"

\* C9: in a pass for a supported network with every relay registered, the
\* wait for connections never ends the pass: the fetch is attempted whether
\* or not the wait timed out and with any number of relays connected, and the
\* pass ends with both complete mappings or with the fetch error and no
\* mapping at all.
C9_FetchAlwaysAttempted ==
    (network \in SupportedNetworks /\ AllRelaysAdded) =>
        /\ pc \in {"connect", "wait", "fetch", "done"}
        /\ pc \in {"connect", "wait", "fetch"} =>
               outcome = "none" /\ fetch_result = "none"
        /\ pc = "done" =>
               \/ /\ fetch_result = "ok" /\ outcome = "ok"
                  /\ cashu_announcements =
                         ParsedOfKind(NIP87_MINT_ANNOUNCEMENT_CASHU_KIND,
                                      parse_event_as_cashu_mint_announcement)
                  /\ fedimint_announcements =
                         ParsedOfKind(NIP87_MINT_ANNOUNCEMENT_FEDIMINT_KIND,
                             parse_event_as_fedimint_mint_announcement)
                  /\ cashu_mints = CashuAggregate(cashu_announcements)
                  /\ fedimint_mints = FedimintAggregate(fedimint_announcements)
               \/ /\ fetch_result = "err" /\ outcome = "err"
                  /\ cashu_mints = <<>> /\ fedimint_mints = <<>>

\* the wait timed out with no relay connected and the fetch was made all the
\* same
C9_Witness ==
    /\ network \in SupportedNetworks /\ AllRelaysAdded
    /\ pc = "done"
    /\ timed_out /\ connected = {}
    /\ fetch_result = "ok" /\ outcome = "ok"

====
